---- MODULE Spec2Model ----
(***************************************************************************)
(* Model of the thumbnailer (src/main.rs): main's single-file / directory  *)
(* dispatch and create_thumbnail_mosaic's pipeline (temporary directory,   *)
(* duration probe, frame sampling with black-frame retry, mosaic           *)
(* composite, metadata lookups, caption overlay).                          *)
(*                                                                         *)
(* The external tools (ffmpeg, ffprobe) and the filesystem are the         *)
(* environment: every invocation draws its outcome from a small set.       *)
(*   "spawn_error" : the process could not be started (io::Error)          *)
(*   "no_output"   : the process ran but wrote no file (non-zero exit,     *)
(*                   seek past the end of the stream, unreadable input)    *)
(*   "written"     : the process ran and wrote its output file             *)
(*                                                                         *)
(* Time: f64 seconds are modelled as exact rationals.  A duration is an    *)
(* integer number of milliseconds; a timestamp is kept as the numerator of *)
(* a fraction of milliseconds whose denominator is total_frames, so that   *)
(* interval * i = duration * i / total_frames is exact.                    *)
(*                                                                         *)
(* Text: a string is a sequence of characters (one-character strings, or   *)
(* atoms standing for a run of characters that need no escaping).          *)
(***************************************************************************)
EXTENDS Integers, Sequences, FiniteSets, TLC

\* ---------------------------------------------------------------- bounds
MaxEntries == 2
MaxDurSteps == 2
DurStep == 4500
MaxFaults == 1
MaxDim == 3
MaxLen == 3

\* ------------------------------------------------------ program constants
Rows == 3
Cols == 3
TotalFrames == 9
max_attempts == 5
RetryStepMs == 2000

\* ------------------------------------------------------------------ text
UpperChars == <<"A", "B", "C", "D", "E", "F", "G", "H", "I", "J", "K", "L", "M",
                "N", "O", "P", "Q", "R", "S", "T", "U", "V", "W", "X", "Y", "Z">>
LowerChars == <<"a", "b", "c", "d", "e", "f", "g", "h", "i", "j", "k", "l", "m",
                "n", "o", "p", "q", "r", "s", "t", "u", "v", "w", "x", "y", "z">>

ToLowerChar(c) ==
    IF \E k \in 1..Len(UpperChars) : UpperChars[k] = c
    THEN LowerChars[CHOOSE k \in 1..Len(UpperChars) : UpperChars[k] = c]
    ELSE c

\* str::to_lowercase on ASCII text
ToLowercase(s) == [k \in 1..Len(s) |-> ToLowerChar(s[k])]

VideoExtensions ==
    { <<"m", "p", "4">>, <<"m", "o", "v">>, <<"a", "v", "i">>, <<"m", "k", "v">>,
      <<"w", "e", "b", "m">>, <<"m", "4", "v">>, <<"w", "m", "v">>,
      <<"m", "p", "g">>, <<"m", "p", "e", "g">>, <<"t", "s">> }

IsVideoFileNoLowercase(ext) == ext \in VideoExtensions

\* is_video_file: the extension ("" when there is none), lowercased, is in the list
is_video_file(ext) == ToLowercase(ext) \in VideoExtensions

RECURSIVE Replace(_, _, _)
\* str::replace(c, r): every occurrence of the character c becomes the string r
Replace(s, c, r) ==
    IF s = <<>> THEN <<>>
    ELSE (IF Head(s) = c THEN r ELSE <<Head(s)>>) \o Replace(Tail(s), c, r)

EscapeBackslashLast(s) ==
    Replace(Replace(Replace(Replace(s, ":", <<"\\", ":">>),
                            "(", <<"\\", "(">>),
                    ")", <<"\\", ")">>),
            "\\", <<"\\", "\\">>)

\* escape_ffmpeg_drawtext_text: four replacements, the backslash first
escape_ffmpeg_drawtext_text(s) ==
    Replace(Replace(Replace(Replace(s, "\\", <<"\\", "\\">>),
                            ":", <<"\\", ":">>),
                    "(", <<"\\", "(">>),
            ")", <<"\\", ")">>)

\* ------------------------------------------------------------------ time
\* format!("{:.3}", timestamp): the timestamp in whole milliseconds, rounded
\* to nearest; ts is the numerator over den
Fmt3(ts, den) == (2 * ts + den) \div (2 * den)

Durations == { k * DurStep : k \in 0..MaxDurSteps }

\* ----------------------------------------------------------------- state
VARIABLES
    mode,          \* "noarg" | "invalid" | "file" | "dir" | "call"
    entries,       \* the directory listing (directory mode) or the one input path
    idx,           \* position of main's loop in the listing; names the pipeline run
    pc,            \* position in main / create_thumbnail_mosaic
    attempted,     \* entries create_thumbnail_mosaic was called for
    failed,        \* entries whose call returned Err
    outputs,       \* entries whose output image has been written
    invokedFor,    \* entries for which an external tool has been invoked
    lastResult,    \* result of the call that returned last: "none" | "ok" | "err"
    abortedBy,     \* what ended main with an Err: "none" | "read_dir" | "entry" | "call"
    rows, cols, total_frames,   \* arguments of create_thumbnail_mosaic
    tempDirs,      \* temporary directories that exist, named by their run
    tempFiles,     \* files inside temporary directories: <<run, kind, index>>
    mosaicFrames,  \* the frame indices tiled into mosaic_raw.jpg, in tile order
    probed,        \* outcome kind of this run's duration probe
    duration,      \* milliseconds
    i,             \* loop variable of the sampling loop
    timestamp,     \* numerator, in milliseconds, over total_frames
    attempt,
    samples,       \* timestamps an extraction was invoked at, for the current index
    results,       \* the black-frame results for the current index, in order
    held,          \* -ss argument (ms) of the extraction that wrote thumb_i, or -1
    initialTs,     \* the first timestamp of every index so far
    trace,         \* the stages this run has completed, in order
    invoked,       \* the kinds of tool invocation this run has made
    faults,        \* tool runs of this run that wrote nothing
    resolution,    \* stdout of the resolution probe, trimmed
    font_path,     \* the font find_default_font returned
    filesize_mb,   \* the file size as format!("{:.2}") prints it
    drawtext,      \* the escaped font path and caption handed to drawtext
    text, escaped  \* input and output of escape_ffmpeg_drawtext_text

vars == <<mode, entries, idx, pc, attempted, failed, outputs, invokedFor, lastResult,
          abortedBy,
          rows, cols, total_frames, tempDirs, tempFiles, mosaicFrames, probed,
          duration, i, timestamp, attempt, samples, results, held, initialTs,
          trace, invoked, faults, resolution, font_path, filesize_mb, drawtext, text, escaped>>

mainVars == <<mode, entries, attempted>>
argVars == <<rows, cols, total_frames>>
textVars == <<text, escaped>>

PipelinePcs == {"probe", "for", "extract", "check", "composite", "resolution",
                "font", "filesize", "overlay"}

\* the thumb_{i:03}.jpg files of run r that exist
Thumbs(r) == { f[3] : f \in { g \in tempFiles : g[1] = r /\ g[2] = "thumb" } }
MosaicExists(r) == <<r, "mosaic", 0>> \in tempFiles

\* ---------------------------------------------------------------- inputs
Mp4 == <<"m", "p", "4">>
Txt == <<"t", "x", "t">>

\* entries main's batch loop is followed through
BatchKinds == { [file |-> TRUE, ext |-> Mp4], [file |-> TRUE, ext |-> Txt] }

\* extensions is_video_file is tried on: the listed ones, spelled in lower,
\* upper and mixed case, and others
ExtSamples ==
    VideoExtensions
    \cup { <<"M", "P", "4">>, <<"M", "o", "V">>, <<"A", "V", "I">>, <<"m", "K", "v">>,
           <<"W", "E", "B", "M">>, <<"M", "4", "V">>, <<"w", "m", "V">>,
           <<"M", "p", "g">>, <<"M", "P", "E", "G">>, <<"T", "S">>, <<"t", "S">> }
    \cup { <<>>, Txt, <<"j", "p", "g">>, <<"m", "p">>, <<"m", "p", "4", "x">>,
           <<"m", "p", "e">>, <<"s", "t">>, <<"T">>, <<"M", "P", "3">> }

Listings == UNION { [1..n -> BatchKinds] : n \in 0..MaxEntries }

\* directories of one entry, a file or a subdirectory, of any sample extension
SingleListings == { <<[file |-> f, ext |-> e]>> : f \in BOOLEAN, e \in ExtSamples }

ToolOutcomes == {"spawn_error", "no_output", "written"}

ProbeOutcomes ==
    { [kind |-> "spawn_error", value |-> 0], [kind |-> "unparseable", value |-> 0] }
    \cup { [kind |-> "parsed", value |-> d] : d \in Durations }

FontCandidates ==
    << <<"/usr/share/fonts/truetype/dejavu/DejaVuSans.ttf">>,
       <<"/usr/share/fonts/truetype/freefont/FreeSans.ttf">>,
       <<"/System/Library/Fonts/SFNSDisplay.ttf">>,
       <<"/Library/Fonts/Arial.ttf">>,
       <<"C", ":", "/Windows/Fonts/arial.ttf">>,
       <<"C", ":", "/Windows/Fonts/segoeui.ttf">> >>

EscChars == {"\\", ":", "(", ")", "a", "'"}
Strings == UNION { [1..n -> EscChars] : n \in 0..MaxLen }

\* ------------------------------------------------------------------ Init
Idle ==
    /\ failed = {} /\ outputs = {} /\ invokedFor = {} /\ lastResult = "none"
    /\ abortedBy = "none"
    /\ tempDirs = {} /\ tempFiles = {} /\ mosaicFrames = <<>>
    /\ probed = "none" /\ duration = 0 /\ i = 0 /\ timestamp = 0 /\ attempt = 0
    /\ samples = <<>> /\ results = <<>> /\ held = -1 /\ initialTs = <<>>
    /\ trace = <<>> /\ invoked = {} /\ faults = 0
    /\ resolution = <<>> /\ font_path = <<>> /\ filesize_mb = <<>> /\ drawtext = <<>>

\* the process as main starts: lines 96 and 105 pass rows 3, cols 3, total_frames 9
Init ==
    /\ Idle
    /\ mode \in {"noarg", "invalid", "file", "dir"}
    /\ entries \in CASE mode = "dir" -> Listings
                     [] mode = "file" -> { <<[file |-> TRUE, ext |-> e]>> : e \in {Mp4, Txt} }
                     [] OTHER -> { <<>> }
    /\ pc = "main"
    /\ idx = 0
    /\ attempted = {}
    /\ rows = Rows /\ cols = Cols /\ total_frames = TotalFrames
    /\ text = <<>> /\ escaped = <<>>

\* main given a directory of one entry
DirInit ==
    /\ Idle
    /\ mode = "dir"
    /\ entries \in SingleListings
    /\ pc = "main"
    /\ idx = 0
    /\ attempted = {}
    /\ rows = Rows /\ cols = Cols /\ total_frames = TotalFrames
    /\ text = <<>> /\ escaped = <<>>

\* a call of create_thumbnail_mosaic with any grid
CallInit ==
    /\ Idle
    /\ mode = "call"
    /\ entries = <<[file |-> TRUE, ext |-> Mp4]>>
    /\ pc = "tempdir"
    /\ idx = 1
    /\ attempted = {1}
    /\ rows \in 1..MaxDim /\ cols \in 1..MaxDim /\ total_frames = rows * cols
    /\ text = <<>> /\ escaped = <<>>

\* a call of escape_ffmpeg_drawtext_text with any text
EscapeInit ==
    /\ Idle
    /\ mode = "escape"
    /\ entries = <<>>
    /\ pc = "text"
    /\ idx = 0
    /\ attempted = {}
    /\ rows = Rows /\ cols = Cols /\ total_frames = TotalFrames
    /\ text \in Strings /\ escaped = <<>>

\* ------------------------------------------------- create_thumbnail_mosaic
\* the locals of create_thumbnail_mosaic and the contents of its mosaic file
locals == <<mosaicFrames, duration, i, timestamp, attempt, samples, results, held,
            initialTs, resolution, font_path, filesize_mb>>
\* the locals of one iteration of the sampling loop
iterVars == <<timestamp, attempt, samples, results, held>>

AbortBatchOnError(ok) ==
    CASE mode = "dir" -> IF ok THEN "dir_next" ELSE "exit_err"
      [] mode = "file" -> IF ok THEN "exit_ok" ELSE "exit_err"
      [] OTHER -> "returned"

\* where main goes on when the call returns: the batch loop logs an Err and
\* takes the next entry, single-file mode propagates it with ?
AfterCall(ok) ==
    CASE mode = "dir" -> "dir_next"
      [] mode = "file" -> IF ok THEN "exit_ok" ELSE "exit_err"
      [] OTHER -> "returned"

LeakOnError(dirs, r, ok) == IF ok THEN dirs \ {r} ELSE dirs

\* temp_dir goes out of scope on every return: TempDir's drop removes the directory
DropTempDir(dirs, r, ok) == dirs \ {r}

\* return from create_thumbnail_mosaic, by ? or by the final Ok(()): the locals
\* go out of scope
Return(ok) ==
    /\ pc' = AfterCall(ok)
    /\ failed' = IF ok THEN failed ELSE failed \cup {idx}
    /\ lastResult' = IF ok THEN "ok" ELSE "err"
    /\ abortedBy' = IF AfterCall(ok) = "exit_err" THEN "call" ELSE abortedBy
    /\ tempDirs' = DropTempDir(tempDirs, idx, ok)
    /\ tempFiles' = { f \in tempFiles : f[1] \in tempDirs' }
    /\ mosaicFrames' = IF idx \in tempDirs' THEN mosaicFrames ELSE <<>>
    /\ duration' = 0 /\ i' = 0 /\ timestamp' = 0 /\ attempt' = 0
    /\ samples' = <<>> /\ results' = <<>> /\ held' = -1 /\ initialTs' = <<>>
    /\ resolution' = <<>> /\ font_path' = <<>> /\ filesize_mb' = <<>>

Stay == UNCHANGED <<failed, lastResult, abortedBy, tempDirs, tempFiles>>

\* let temp_dir = tempdir()?;
TempDir ==
    /\ pc = "tempdir"
    /\ probed' = "none" /\ invoked' = {} /\ faults' = 0 /\ drawtext' = <<>>
    /\ \E created \in BOOLEAN :
         IF created
         THEN /\ tempDirs' = tempDirs \cup {idx}
              /\ trace' = << <<"tempdir", 0>> >>
              /\ pc' = "probe"
              /\ UNCHANGED <<failed, lastResult, abortedBy, tempFiles, locals>>
         ELSE /\ trace' = <<>>
              /\ Return(FALSE)
    /\ UNCHANGED <<mainVars, idx, argVars, outputs, invokedFor, textVars>>

ProbeIgnoresParseError(out) ==
    [err |-> out.kind = "spawn_error", value |-> out.value]

\* get_video_duration: Err when ffprobe cannot be run or its output is no number
get_video_duration(out) ==
    [err |-> out.kind # "parsed", value |-> out.value]

\* let duration = get_video_duration(video_path)?; let interval = ...
Probe ==
    /\ pc = "probe"
    /\ invoked' = invoked \cup {"duration"}
    /\ invokedFor' = invokedFor \cup {idx}
    /\ \E out \in ProbeOutcomes :
         /\ probed' = out.kind
         /\ IF get_video_duration(out).err
            THEN /\ Return(FALSE)
                 /\ UNCHANGED trace
            ELSE /\ duration' = get_video_duration(out).value
                 /\ trace' = Append(trace, <<"duration", 0>>)
                 /\ pc' = "for"
                 /\ Stay
                 /\ UNCHANGED <<mosaicFrames, i, iterVars, initialTs, resolution,
                                font_path, filesize_mb>>
    /\ UNCHANGED <<mainVars, idx, argVars, outputs, faults, drawtext, textVars>>

\* for i in 0..total_frames: the range is exhausted
LoopDone(k, n) == k >= n

TimestampFromOne(d, k) == d * (k + 1)

\* interval * i, with interval = duration / total_frames: the numerator
InitialTimestamp(d, k) == d * k

\* the loop header and the locals of one iteration (lines 135-141); they go
\* out of scope when the loop ends
For ==
    /\ pc = "for"
    /\ IF LoopDone(i, total_frames)
       THEN /\ pc' = "composite"
            /\ timestamp' = 0 /\ attempt' = 0
            /\ samples' = <<>> /\ results' = <<>> /\ held' = -1
            /\ UNCHANGED initialTs
       ELSE /\ timestamp' = InitialTimestamp(duration, i)
            /\ attempt' = 0
            /\ samples' = <<>> /\ results' = <<>> /\ held' = -1
            /\ initialTs' = Append(initialTs, timestamp')
            /\ pc' = "extract"
    /\ Stay
    /\ UNCHANGED <<mainVars, idx, argVars, outputs, invokedFor, mosaicFrames, probed,
                   duration, i, trace, invoked, faults, resolution, font_path,
                   filesize_mb, drawtext, textVars>>

\* ffmpeg -ss {timestamp:.3} -i video -frames:v 1 -q:v 2 -y thumb_{i:03}.jpg
\* .status()? is an Err only when the process cannot be started
Extract ==
    /\ pc = "extract"
    /\ invoked' = invoked \cup {"extract"}
    /\ invokedFor' = invokedFor \cup {idx}
    /\ \E out \in ToolOutcomes :
         CASE out = "spawn_error" ->
                /\ Return(FALSE)
                /\ UNCHANGED faults
           [] out = "no_output" ->
                /\ faults < MaxFaults
                /\ faults' = faults + 1
                /\ samples' = Append(samples, timestamp)
                /\ pc' = "check"
                /\ Stay
                /\ UNCHANGED <<mosaicFrames, duration, i, timestamp, attempt, results,
                               held, initialTs, resolution, font_path, filesize_mb>>
           [] out = "written" ->
                /\ tempFiles' = tempFiles \cup {<<idx, "thumb", i>>}
                /\ held' = Fmt3(timestamp, total_frames)
                /\ samples' = Append(samples, timestamp)
                /\ pc' = "check"
                /\ UNCHANGED <<faults, failed, lastResult, abortedBy, tempDirs>>
                /\ UNCHANGED <<mosaicFrames, duration, i, timestamp, attempt, results,
                               initialTs, resolution, font_path, filesize_mb>>
    /\ UNCHANGED <<mainVars, idx, argVars, outputs, probed, trace, drawtext, textVars>>

BreakOneLate(black, k) == ~black \/ k > max_attempts

\* if !is_black_frame(..)? || attempt >= max_attempts { break; }
BreakLoop(black, k) == ~black \/ k >= max_attempts

\* timestamp += 2.0
RetryTimestamp(ts, den) == ts + RetryStepMs * den

\* is_black_frame at the same timestamp, then break or retry (lines 156-161);
\* stderr of the blackframe run holds the marker or does not
Check ==
    /\ pc = "check"
    /\ invoked' = invoked \cup {"blackframe"}
    /\ \E out \in {"spawn_error", "blackframe", "clean"} :
         IF out = "spawn_error"
         THEN /\ Return(FALSE)
              /\ UNCHANGED trace
         ELSE /\ results' = Append(results, out = "blackframe")
              /\ Stay
              /\ UNCHANGED <<mosaicFrames, duration, samples, held, initialTs,
                             resolution, font_path, filesize_mb>>
              /\ IF BreakLoop(out = "blackframe", attempt)
                 THEN /\ trace' = Append(trace, <<"frame", i>>)
                      /\ i' = i + 1
                      /\ pc' = "for"
                      /\ UNCHANGED <<timestamp, attempt>>
                 ELSE /\ attempt' = attempt + 1
                      /\ timestamp' = RetryTimestamp(timestamp, total_frames)
                      /\ pc' = "extract"
                      /\ UNCHANGED <<i, trace>>
    /\ UNCHANGED <<mainVars, idx, argVars, outputs, invokedFor, probed, faults,
                   drawtext, textVars>>

\* the frames the image2 reader finds: thumb_000, thumb_001, ... up to the
\* first missing one
TiledFrames(th) ==
    LET n == CHOOSE m \in 0..Cardinality(th) : (0..(m - 1)) \subseteq th /\ m \notin th
    IN  [k \in 1..n |-> k - 1]

\* ffmpeg -f image2 -i thumb_%03d.jpg -filter_complex tile={cols}x{rows} -y mosaic_raw.jpg
Composite ==
    /\ pc = "composite"
    /\ invoked' = invoked \cup {"composite"}
    /\ invokedFor' = invokedFor \cup {idx}
    /\ \E out \in ToolOutcomes :
         CASE out = "spawn_error" ->
                /\ Return(FALSE)
                /\ UNCHANGED <<faults, trace>>
           [] out = "no_output" ->
                /\ faults < MaxFaults \/ 0 \notin Thumbs(idx)
                /\ faults' = faults + 1
                /\ trace' = Append(trace, <<"composite", 0>>)
                /\ pc' = "resolution"
                /\ Stay
                /\ UNCHANGED locals
           [] out = "written" ->
                /\ 0 \in Thumbs(idx)
                /\ tempFiles' = tempFiles \cup {<<idx, "mosaic", 0>>}
                /\ mosaicFrames' = TiledFrames(Thumbs(idx))
                /\ trace' = Append(trace, <<"composite", 0>>)
                /\ pc' = "resolution"
                /\ UNCHANGED <<faults, failed, lastResult, abortedBy, tempDirs>>
                /\ UNCHANGED <<duration, i, iterVars, initialTs, resolution, font_path,
                               filesize_mb>>
    /\ UNCHANGED <<mainVars, idx, argVars, outputs, probed, drawtext, textVars>>

\* ffprobe ... stream=width,height -of csv=s=x:p=0; the trimmed stdout is used as is
Resolution ==
    /\ pc = "resolution"
    /\ invoked' = invoked \cup {"resolution"}
    /\ \E out \in {"spawn_error", "empty", "640x480"} :
         IF out = "spawn_error"
         THEN /\ Return(FALSE)
              /\ UNCHANGED trace
         ELSE /\ resolution' = IF out = "empty" THEN <<>> ELSE <<out>>
              /\ trace' = Append(trace, <<"resolution", 0>>)
              /\ pc' = "font"
              /\ Stay
              /\ UNCHANGED <<mosaicFrames, duration, i, iterVars, initialTs, font_path,
                             filesize_mb>>
    /\ UNCHANGED <<mainVars, idx, argVars, outputs, invokedFor, probed, faults,
                   drawtext, textVars>>

\* find_default_font: the first candidate that exists, None (<<>>) when none does
find_default_font(existing) ==
    IF existing = {} THEN <<>>
    ELSE FontCandidates[CHOOSE k \in existing : \A m \in existing : k <= m]

\* let font_path = find_default_font().ok_or_else(..)?;
Font ==
    /\ pc = "font"
    /\ \E existing \in SUBSET (1..Len(FontCandidates)) :
         IF find_default_font(existing) = <<>>
         THEN /\ Return(FALSE)
              /\ UNCHANGED trace
         ELSE /\ font_path' = find_default_font(existing)
              /\ trace' = Append(trace, <<"font", 0>>)
              /\ pc' = "filesize"
              /\ Stay
              /\ UNCHANGED <<mosaicFrames, duration, i, iterVars, initialTs, resolution,
                             filesize_mb>>
    /\ UNCHANGED <<mainVars, idx, argVars, outputs, invokedFor, probed, invoked, faults,
                   drawtext, textVars>>

\* let filesize_mb = get_filesize_mb(video_path)?;
Filesize ==
    /\ pc = "filesize"
    /\ \E out \in {"metadata_error", "1.00"} :
         IF out = "metadata_error"
         THEN /\ Return(FALSE)
              /\ UNCHANGED trace
         ELSE /\ filesize_mb' = <<out>>
              /\ trace' = Append(trace, <<"filesize", 0>>)
              /\ pc' = "overlay"
              /\ Stay
              /\ UNCHANGED <<mosaicFrames, duration, i, iterVars, initialTs, resolution,
                             font_path>>
    /\ UNCHANGED <<mainVars, idx, argVars, outputs, invokedFor, probed, invoked, faults,
                   drawtext, textVars>>

\* Path::file_name of the input
FileName(e) == IF e.ext = <<>> THEN <<"video">> ELSE <<"video", ".">> \o e.ext

\* format!("File:{} Size:{:.2} MB Resolution:({})", filename, filesize_mb, resolution)
RawText(filename, size, res) ==
    <<"File", ":">> \o filename \o <<" Size", ":">> \o size
        \o <<" MB Resolution", ":", "(">> \o res \o <<")">>

\* the drawtext overlay, the only writer of output_image, and the final Ok(())
Overlay ==
    /\ pc = "overlay"
    /\ invoked' = invoked \cup {"overlay"}
    /\ drawtext' =
         [fontfile |-> escape_ffmpeg_drawtext_text(font_path),
          text |-> escape_ffmpeg_drawtext_text(
                       RawText(FileName(entries[idx]), filesize_mb, resolution))]
    /\ \E out \in ToolOutcomes :
         CASE out = "spawn_error" ->
                /\ Return(FALSE)
                /\ UNCHANGED <<outputs, faults, trace>>
           [] out = "no_output" ->
                /\ faults < MaxFaults \/ ~MosaicExists(idx)
                /\ faults' = faults + 1
                /\ trace' = Append(trace, <<"overlay", 0>>)
                /\ Return(TRUE)
                /\ UNCHANGED outputs
           [] out = "written" ->
                /\ MosaicExists(idx)
                /\ outputs' = outputs \cup {idx}
                /\ trace' = Append(trace, <<"overlay", 0>>)
                /\ Return(TRUE)
                /\ UNCHANGED faults
    /\ UNCHANGED <<mainVars, idx, argVars, invokedFor, probed, textVars>>

\* -------------------------------------------------------------------- main
pipeVars == <<tempDirs, tempFiles, locals, probed, trace, invoked, faults, drawtext>>

\* main up to its first blocking call (lines 78-87, 102-109)
Main ==
    /\ pc = "main"
    /\ CASE mode = "dir" ->
              /\ \E listed \in BOOLEAN :
                   /\ pc' = IF listed THEN "dir_next" ELSE "exit_err"
                   /\ abortedBy' = IF listed THEN abortedBy ELSE "read_dir"
              /\ UNCHANGED <<idx, attempted>>
         [] mode = "file" ->
              /\ idx' = 1
              /\ attempted' = attempted \cup {1}
              /\ pc' = "tempdir"
              /\ UNCHANGED abortedBy
         [] OTHER ->
              /\ pc' = "exit_1"
              /\ UNCHANGED <<idx, attempted, abortedBy>>
    /\ UNCHANGED <<mode, entries, failed, outputs, invokedFor, lastResult, argVars,
                   pipeVars, textVars>>

\* if path.is_file() && is_video_file(&path)
ShouldProcess(e) == e.file /\ is_video_file(e.ext)

\* one step of for entry in fs::read_dir(input_path)? (lines 88-101, 111)
DirNext ==
    /\ pc = "dir_next"
    /\ IF idx >= Len(entries)
       THEN /\ pc' = "exit_ok"
            /\ UNCHANGED <<idx, attempted, abortedBy>>
       ELSE \E read \in BOOLEAN :
              IF ~read
              THEN /\ pc' = "exit_err"
                   /\ abortedBy' = "entry"
                   /\ UNCHANGED <<idx, attempted>>
              ELSE /\ idx' = idx + 1
                   /\ UNCHANGED abortedBy
                   /\ IF ShouldProcess(entries[idx + 1])
                      THEN /\ attempted' = attempted \cup {idx + 1}
                           /\ pc' = "tempdir"
                      ELSE /\ pc' = "dir_next"
                           /\ UNCHANGED attempted
    /\ UNCHANGED <<mode, entries, failed, outputs, invokedFor, lastResult, argVars,
                   pipeVars, textVars>>

\* let escaped_text = escape_ffmpeg_drawtext_text(&raw_text);
EscapeStep ==
    /\ pc = "text"
    /\ escaped' = escape_ffmpeg_drawtext_text(text)
    /\ pc' = "escaped"
    /\ UNCHANGED <<mode, entries, idx, attempted, failed, outputs, invokedFor,
                   lastResult, abortedBy, argVars, pipeVars, text>>

\* ---------------------------------------------------------- specifications
CallNext ==
    \/ TempDir \/ Probe \/ For \/ Extract \/ Check
    \/ Composite \/ Resolution \/ Font \/ Filesize \/ Overlay

Next == Main \/ DirNext \/ CallNext

\* the program
Spec == Init /\ [][Next]_vars

\* the program given a directory of one entry
SpecDir == DirInit /\ [][Next]_vars

\* create_thumbnail_mosaic called with any rows and cols
SpecCall == CallInit /\ [][CallNext]_vars

\* escape_ffmpeg_drawtext_text applied to any text
SpecEscape == EscapeInit /\ [][EscapeStep]_vars

\* =================================================================== claims
Running == pc \in PipelinePcs
\* the index the iteration locals (samples, results, held) belong to
SampleIndex == IF pc = "for" THEN i - 1 ELSE i
\* interval * k + 2.0 * r seconds, as a numerator in ms over total_frames
Candidate(k, r) == duration * k + 2000 * r * total_frames

\* C1: for one frame index the sampling loop extracts at no more than
\* max_attempts + 1 = 6 timestamps, whatever the black-frame results are, and
\* the k-th retry (k = 1..5) is made at interval * i + 2.0 * k.
C1_RetryBounded ==
    /\ Len(samples) <= 6
    /\ \A n \in 1..Len(samples) : samples[n] = Candidate(SampleIndex, n - 1)
    /\ Running => attempt \in 0..5

C1_Witness ==
    /\ pc = "for" /\ i = 2 /\ duration > 0
    /\ Len(samples) = 6
    /\ samples[6] = duration * 1 + 10000 * total_frames
    /\ \A n \in 1..6 : results[n]

\* C2: apart from black-frame resampling, a failing tool run (extraction,
\* composite, overlay) is terminal: once a tool run of the call has written
\* nothing the call is no longer running and it returned an error; and the
\* stages after the composite never run with fewer than rows * cols frames.
C2_ToolFailureTerminal ==
    /\ (faults > 0 /\ pc # "tempdir") => (~Running /\ lastResult = "err")
    /\ pc \in {"resolution", "font", "filesize", "overlay"}
          => Cardinality(Thumbs(idx)) >= rows * cols

ProcessedFile(e) == e.file /\ ToLowercase(e.ext) \in VideoExtensions

\* C3: in directory mode a failing call is logged and never ends the batch:
\* main is never ended by a call's Err, and when the loop has run to its end
\* every allow-listed file B listed after a failed file A has been attempted.
C3_BatchContinues ==
    mode = "dir" =>
        /\ abortedBy # "call"
        /\ pc = "exit_ok" =>
              \A a \in failed : \A b \in (a + 1)..Len(entries) :
                  ProcessedFile(entries[b]) => b \in attempted

C3_Witness ==
    /\ mode = "dir" /\ pc = "exit_ok"
    /\ 1 \in failed /\ 2 \in attempted /\ 2 \in outputs

\* C4: when the duration probe fails (ffprobe cannot be run, or its output is
\* no number) the call returns an error without any frame extraction or
\* black-frame detection having been invoked, and no temporary directory or
\* file remains.
C4_ProbeFailureAborts ==
    probed \in {"spawn_error", "unparseable"} =>
        /\ ~Running
        /\ lastResult = "err"
        /\ invoked \cap {"extract", "blackframe", "composite", "overlay"} = {}
        /\ trace = << <<"tempdir", 0>> >>
        /\ tempDirs = {} /\ tempFiles = {}

C4_Witness ==
    /\ probed = "unparseable" /\ pc = "exit_err" /\ mode = "file"
    /\ invoked = {"duration"} /\ 1 \in failed

\* C5: a running call owns exactly one temporary directory, its own, and all
\* thumbnails and the raw mosaic are inside it; the directory and its files
\* are gone whenever no call is running, whatever the exit path, so none of an
\* earlier file exists when the next file's call starts.
C5_TempDirScoped ==
    /\ \A f \in tempFiles : f[1] \in tempDirs /\ f[1] = idx
    /\ Running => tempDirs = {idx}
    /\ ~Running => (tempDirs = {} /\ tempFiles = {})

C5_Witness ==
    /\ mode = "dir" /\ idx = 2 /\ pc = "overlay"
    /\ 1 \in failed /\ tempDirs = {2}
    /\ <<2, "mosaic", 0>> \in tempFiles

\* C6: for duration > 0 the first timestamp of index k is interval * k with
\* interval = duration / total_frames; these are non-decreasing in k and all
\* below the duration.
C6_InitialTimestamps ==
    duration > 0 =>
        \A n \in 1..Len(initialTs) :
            /\ initialTs[n] = Candidate(n - 1, 0)
            /\ initialTs[n] < duration * total_frames
            /\ n > 1 => initialTs[n - 1] <= initialTs[n]

\* duration 9 s and 9 frames: 0, 1, ..., 8 s
C6_Witness ==
    /\ duration = 9000 /\ total_frames = 9 /\ Len(initialTs) = 9
    /\ \A n \in 1..9 : Fmt3(initialTs[n], total_frames) = 1000 * (n - 1)

ExpectedTrace ==
    << <<"tempdir", 0>>, <<"duration", 0>> >>
    \o [k \in 1..total_frames |-> <<"frame", k - 1>>]
    \o << <<"composite", 0>>, <<"resolution", 0>>, <<"font", 0>>, <<"filesize", 0>>,
          <<"overlay", 0>> >>

IsPrefix(s, t) == Len(s) <= Len(t) /\ \A k \in 1..Len(s) : s[k] = t[k]

\* C7: the output image is written only by the overlay step, which runs only
\* after the duration probe, the extraction of every frame 0..total_frames-1 in
\* index order, the composite and the metadata lookups have completed in that
\* order; a failure at any earlier point, a tool run that extracted or tiled
\* nothing included, leaves no output written by this run.
C7_OutputOnlyAtEnd ==
    /\ IsPrefix(trace, ExpectedTrace)
    /\ idx \in outputs => (~Running /\ trace = ExpectedTrace /\ lastResult = "ok")
    /\ \A k \in failed : k \notin outputs
    /\ idx \in outputs => faults = 0

\* the part of C7 that is about the order of the stages and about calls that
\* return an error
C7_StageOrder ==
    /\ IsPrefix(trace, ExpectedTrace)
    /\ idx \in outputs => (~Running /\ trace = ExpectedTrace /\ lastResult = "ok")
    /\ \A k \in failed : k \notin outputs
    /\ outputs \subseteq attempted

Specials == {"\\", ":", "(", ")"}

RECURSIVE CharwiseEscaped(_)
\* every special character preceded by a backslash, the others copied
CharwiseEscaped(s) ==
    IF s = <<>> THEN <<>>
    ELSE (IF Head(s) \in Specials THEN <<"\\", Head(s)>> ELSE <<Head(s)>>)
         \o CharwiseEscaped(Tail(s))

RECURSIVE WellEscaped(_)
\* read left to right, no special character stands unescaped
WellEscaped(s) ==
    IF s = <<>> THEN TRUE
    ELSE IF Head(s) = "\\"
         THEN Len(s) >= 2 /\ s[2] \in Specials /\ WellEscaped(Tail(Tail(s)))
         ELSE Head(s) \notin Specials /\ WellEscaped(Tail(s))

\* C8: in the output of escape_ffmpeg_drawtext_text every backslash, colon and
\* parenthesis of the input is preceded by an escaping backslash, none stands
\* unescaped, the other characters are copied in order, and a text without
\* these four characters is returned unchanged.
C8_EscapeCorrect ==
    pc = "escaped" =>
        /\ escaped = CharwiseEscaped(text)
        /\ WellEscaped(escaped)
        /\ (\A k \in 1..Len(text) : text[k] \notin Specials) => escaped = text

C8_Witness ==
    /\ pc = "escaped"
    /\ text = <<"\\", ":", "(">>
    /\ escaped = <<"\\", "\\", "\\", ":", "\\", "(">>

ClaimedExtensions ==
    { <<"m", "p", "4">>, <<"m", "o", "v">>, <<"a", "v", "i">>, <<"m", "k", "v">>,
      <<"w", "e", "b", "m">>, <<"m", "4", "v">>, <<"w", "m", "v">>,
      <<"m", "p", "g">>, <<"m", "p", "e", "g">>, <<"t", "s">> }

SameLetter(a, b) ==
    a = b \/ \E n \in 1..Len(UpperChars) : {a, b} = {UpperChars[n], LowerChars[n]}

ListedIgnoringCase(ext) ==
    \E e \in ClaimedExtensions :
        Len(e) = Len(ext) /\ \A k \in 1..Len(e) : SameLetter(e[k], ext[k])

\* C9: in directory mode the call is made for an entry if and only if it is a
\* regular file whose extension is, ignoring case, one of mp4, mov, avi, mkv,
\* webm, m4v, wmv, mpg, mpeg, ts; for every other entry no external tool is
\* invoked.
C9_DirectoryFilter ==
    mode = "dir" =>
        /\ attempted \subseteq 1..idx
        /\ \A k \in 1..idx :
              /\ k \in attempted <=> (entries[k].file /\ ListedIgnoringCase(entries[k].ext))
              /\ k \notin attempted => k \notin invokedFor

C9_Witness ==
    /\ mode = "dir" /\ pc = "exit_ok" /\ Len(entries) = 1 /\ idx = 1
    /\ entries[1] = [file |-> TRUE, ext |-> <<"M", "o", "V">>]
    /\ 1 \in attempted /\ 1 \in invokedFor

\* C10: when the sampling loop of an index ends, thumb_{i:03} holds the frame
\* extracted at the last timestamp checked for blackness; that timestamp is the
\* first non-black candidate interval * i + 2.0 * k (k = 0..5), or
\* interval * i + 10.0 when all six are black; and when compositing starts
\* every index 0..total_frames-1 has its frame file.
C10_AcceptedFrame ==
    /\ (pc = "for" /\ i > 0) =>
          LET n == Len(samples) IN
          /\ n \in 1..6 /\ Len(results) = n
          /\ \A k \in 1..n : samples[k] = Candidate(i - 1, k - 1)
          /\ \A k \in 1..(n - 1) : results[k]
          /\ ~results[n] \/ n = 6
          /\ held = Fmt3(samples[n], total_frames)
          /\ <<idx, "thumb", i - 1>> \in tempFiles
    /\ pc = "composite" => Thumbs(idx) = 0..(total_frames - 1)

\* the selection rule of C10 alone, without what the frame file holds
C10_SelectionRule ==
    (pc = "for" /\ i > 0) =>
        LET n == Len(samples) IN
        /\ n \in 1..6 /\ Len(results) = n
        /\ \A k \in 1..n : samples[k] = Candidate(i - 1, k - 1)
        /\ \A k \in 1..(n - 1) : results[k]
        /\ ~results[n] \/ n = 6

====
